---- MODULE Spec2Model ----
(***************************************************************************)
(* Model of change_ap_with_pc/conn.py: the BindAPRequest codec and the     *)
(* AirWaterBLEConnector.bind_ap coroutine with its notification handler.   *)
(*                                                                         *)
(* bind_ap is a coroutine on a single-threaded asyncio loop: between two   *)
(* awaits its code runs atomically, and the notification handler can run   *)
(* only while bind_ap is suspended in an await.  pc names the await the    *)
(* coroutine is suspended in; every action is the code that runs from one  *)
(* await to the next.                                                      *)
(***************************************************************************)
EXTENDS Integers, Sequences, FiniteSets, TLC

\* ------------------------------------------------------------------ bounds
\* bind_ap calls made on one connector instance
MaxAttempts == 2
\* length of the exhaustively enumerated short strings
MaxShortLen == 1

\* ------------------------------------------------------- program constants
PACKET_SIZE == 16
\* range(0, 60) of the wait loop
POLL_COUNT == 60

\* b"\x00\x11\x00\x15\x01"
DONE_SIGNAL == <<0, 17, 0, 21, 1>>

\* ------------------------------------------------------------------ inputs
\* A str is a sequence of code points.  The short strings are over 'A' and
\* U+00E9 (2 bytes in UTF-8); U+20AC (3 bytes in UTF-8) is among the passwords.
Alphabet == {65, 233}

Rep(c, n) == [i \in 1..n |-> c]

ShortStrings == UNION {[1..n -> Alphabet] : n \in 0..MaxShortLen}

\* "Home", and strings at the packet and length-prefix boundaries
SSIDs ==
    ShortStrings \cup
    {<<72, 111, 109, 101>>, Rep(97, 14), Rep(97, 15), Rep(97, 200),
     Rep(97, 255), Rep(97, 256), Rep(233, 128)}

\* "", "secret12", 40 x 'b', U+20AC
Passwords ==
    {<<>>, <<115, 101, 99, 114, 101, 116, 49, 50>>, Rep(98, 40), <<8364>>}

\* payloads the device may notify
Notifications ==
    {DONE_SIGNAL, <<0, 0, 0, 0, 0>>, <<0, 17, 0, 21>>, <<0, 17, 0, 21, 1, 0>>}

\* ------------------------------------------------------------------- codec
\* str.encode(): UTF-8 of one code point
EncodeChar(c) ==
    IF c < 128 THEN <<c>>
    ELSE IF c < 2048 THEN <<192 + (c \div 64), 128 + (c % 64)>>
    ELSE IF c < 65536
         THEN <<224 + (c \div 4096), 128 + ((c \div 64) % 64), 128 + (c % 64)>>
         ELSE <<240 + (c \div 262144), 128 + ((c \div 4096) % 64),
                128 + ((c \div 64) % 64), 128 + (c % 64)>>

\* the code points' encodings, concatenated in order (computed by halves)
EncodeSeq[s \in Seq(Nat)] ==
    IF Len(s) = 0 THEN <<>>
    ELSE IF Len(s) = 1 THEN EncodeChar(s[1])
    ELSE LET h == Len(s) \div 2 IN
         EncodeSeq[SubSeq(s, 1, h)] \o EncodeSeq[SubSeq(s, h + 1, Len(s))]

\* str.encode()
Encode(s) == EncodeSeq[s]

\* int.to_bytes(1, 'little') raises OverflowError outside 0..255
FitsByte(n) == n >= 0 /\ n <= 255

\* BindAPRequest.as_bytes: [err |-> TRUE] stands for the OverflowError
as_bytes(ssid, password) ==
    IF ~FitsByte(Len(ssid)) \/ ~FitsByte(Len(password))
    THEN [err |-> TRUE, data |-> <<>>]
    ELSE [err |-> FALSE,
          data |-> <<Len(ssid)>> \o Encode(ssid) \o
                   <<Len(password)>> \o Encode(password)]

\* ------------------------------------------------------------ packetization
\* packet_count = int(request_size / PACKET_SIZE), plus one for a remainder
PacketCount(request_size) ==
    IF request_size % PACKET_SIZE > 0
    THEN (request_size \div PACKET_SIZE) + 1
    ELSE request_size \div PACKET_SIZE

\* csum = (seq + 1 << 4) + packet_count; + binds tighter than <<
Csum(s, count) == ((s + 1) * 16) + count

Min(a, b) == IF a < b THEN a ELSE b

\* variant of Chunk: a short last chunk is filled up with zero bytes
ChunkPadded(req, s) ==
    [i \in 1..PACKET_SIZE |->
        IF s * PACKET_SIZE + i <= Len(req) THEN req[s * PACKET_SIZE + i] ELSE 0]

\* request[f:s] with f = seq * PACKET_SIZE, s = f + PACKET_SIZE
Chunk(req, s) ==
    SubSeq(req, s * PACKET_SIZE + 1, Min(s * PACKET_SIZE + PACKET_SIZE, Len(req)))

\* variant of BuildPacket: the seq byte is written 1-based
BuildPacketOneBased(s, count, req) ==
    IF ~FitsByte(s) \/ ~FitsByte(Csum(s, count))
    THEN [err |-> TRUE, data |-> <<>>]
    ELSE [err |-> FALSE,
          data |-> <<s + 1, Csum(s, count), 0, 21>> \o Chunk(req, s)]

\* the packet of one loop iteration; err stands for the OverflowError of
\* seq.to_bytes(1, ...) or csum.to_bytes(1, ...)
BuildPacket(s, count, req) ==
    IF ~FitsByte(s) \/ ~FitsByte(Csum(s, count))
    THEN [err |-> TRUE, data |-> <<>>]
    ELSE [err |-> FALSE, data |-> <<s, Csum(s, count), 0, 21>> \o Chunk(req, s)]

\* variant of AckPacket: seq taken as already advanced past the last packet
AckPacketPastEnd(s) ==
    IF ~FitsByte(s + 2)
    THEN [err |-> TRUE, data |-> <<>>]
    ELSE [err |-> FALSE, data |-> <<s + 2, 17, 0, 22>>]

\* ack_packet = (seq + 1).to_bytes(1, 'little') + b"\x11\x00\x16"
AckPacket(s) ==
    IF ~FitsByte(s + 1)
    THEN [err |-> TRUE, data |-> <<>>]
    ELSE [err |-> FALSE, data |-> <<s + 1, 17, 0, 22>>]

\* ------------------------------------------------------------------- state
VARIABLES
    attempt,        \* number of bind_ap calls made on the connector so far
    pc,             \* the await bind_ap is suspended in
    ssid, password, \* arguments of the current call
    connected,      \* the BleakClient context is entered
    subscribed,     \* start_notify succeeded and was not undone
    bind_ap_done,   \* self._bind_ap_done
    request,        \* request (<<>> before it is assigned)
    packet_count,   \* packet_count (0 before it is assigned)
    seq,            \* loop variable seq (-1 while unbound)
    issued,         \* packets passed to write_gatt_char(COMMAND_UUID, ...)
    inflight,       \* packets whose write_gatt_char has not returned
    written,        \* packets whose write the transport confirmed
    polls,          \* iterations of the wait loop done
    exc,            \* exception propagating out of the with body
    outcome,        \* how the call ended
    rx,             \* last payload the handler logged in this call
    stopCalls,      \* stop_notify(NOTIFICATION_UUID) calls of this call
    sigAttempt,     \* the completion signal was delivered during this call
    sigPoll,        \* value of polls when it was first delivered
    sigPc,          \* await bind_ap was in when it was first delivered
    sigEver,        \* the completion signal was ever delivered to the handler
    unexpected,     \* the handler logged "Unexpected data" in this call
    stopFailed      \* stop_notify raised in this call

vars == <<attempt, pc, ssid, password, connected, subscribed, bind_ap_done,
          request, packet_count, seq, issued, inflight, written, polls, exc,
          outcome, rx, stopCalls, sigAttempt, sigPoll, sigPc, sigEver,
          unexpected, stopFailed>>

locals == <<request, packet_count, seq, issued, inflight, written, polls>>
ghost == <<rx, sigAttempt, sigPoll, sigPc, sigEver, unexpected, stopFailed>>

\* the awaits in which a subscribed handler can be run by the event loop
AwaitPoints == {"write", "sleep", "ack_write", "stop_notify", "aexit"}

\* _bind_ap_done = False is a class attribute: a new instance reads False
Init ==
    /\ attempt = 0
    /\ pc = "idle"
    /\ ssid = <<>>
    /\ password = <<>>
    /\ connected = FALSE
    /\ subscribed = FALSE
    /\ bind_ap_done = FALSE
    /\ request = <<>>
    /\ packet_count = 0
    /\ seq = -1
    /\ issued = <<>>
    /\ inflight = {}
    /\ written = <<>>
    /\ polls = 0
    /\ exc = "none"
    /\ outcome = "none"
    /\ rx = <<>>
    /\ stopCalls = 0
    /\ sigAttempt = FALSE
    /\ sigPoll = -1
    /\ sigPc = "none"
    /\ sigEver = FALSE
    /\ unexpected = FALSE
    /\ stopFailed = FALSE

\* bind_ap(device, ssid, password) is called on the connector; the call
\* runs up to the await inside BleakClient.__aenter__
Call(s, p) ==
    /\ pc = "idle"
    /\ attempt < MaxAttempts
    /\ attempt' = attempt + 1
    /\ pc' = "connect"
    /\ ssid' = s
    /\ password' = p
    /\ request' = <<>>
    /\ packet_count' = 0
    /\ seq' = -1
    /\ issued' = <<>>
    /\ inflight' = {}
    /\ written' = <<>>
    /\ polls' = 0
    /\ exc' = "none"
    /\ outcome' = "none"
    /\ rx' = <<>>
    /\ stopCalls' = 0
    /\ sigAttempt' = FALSE
    /\ sigPoll' = -1
    /\ sigPc' = "none"
    /\ unexpected' = FALSE
    /\ stopFailed' = FALSE
    /\ UNCHANGED <<connected, subscribed, bind_ap_done, sigEver>>

\* the caller has taken the result or the exception of bind_ap: the frame
\* of the call and what it logged are gone, the connector is kept
Discard ==
    /\ pc = "returned"
    /\ pc' = "idle"
    /\ ssid' = <<>>
    /\ password' = <<>>
    /\ request' = <<>>
    /\ packet_count' = 0
    /\ seq' = -1
    /\ issued' = <<>>
    /\ inflight' = {}
    /\ written' = <<>>
    /\ polls' = 0
    /\ exc' = "none"
    /\ outcome' = "none"
    /\ rx' = <<>>
    /\ stopCalls' = 0
    /\ sigAttempt' = FALSE
    /\ sigPoll' = -1
    /\ sigPc' = "none"
    /\ unexpected' = FALSE
    /\ stopFailed' = FALSE
    /\ UNCHANGED <<attempt, connected, subscribed, bind_ap_done, sigEver>>

\* async with BleakClient(device) as client: the connection is made and
\* start_notify is awaited
ConnectOk ==
    /\ pc = "connect"
    /\ connected' = TRUE
    /\ pc' = "start_notify"
    /\ UNCHANGED <<attempt, ssid, password, subscribed, bind_ap_done, locals,
                   exc, outcome, stopCalls, ghost>>

\* __aenter__ raises: the with body never runs and bind_ap raises
ConnectFail ==
    /\ pc = "connect"
    /\ pc' = "returned"
    /\ outcome' = "BleakError"
    /\ UNCHANGED <<attempt, ssid, password, connected, subscribed,
                   bind_ap_done, locals, exc, stopCalls, ghost>>

\* variant of ForLoop: the loop is left as soon as the flag is set
ForLoopStopOnDone(s, req, count, fl) ==
    IF s + 1 < count /\ ~bind_ap_done
    THEN LET p == BuildPacket(s + 1, count, req) IN
         /\ seq' = s + 1
         /\ IF p.err
            THEN /\ exc' = "OverflowError"
                 /\ pc' = "aexit"
                 /\ inflight' = fl
                 /\ UNCHANGED issued
            ELSE /\ issued' = Append(issued, p.data)
                 /\ inflight' = fl \cup {p.data}
                 /\ pc' = "write"
                 /\ UNCHANGED exc
    ELSE /\ pc' = "sleep"
         /\ inflight' = fl
         /\ UNCHANGED <<seq, issued, exc>>

\* the for statement, resumed with seq = s while the writes in fl are still
\* awaited: either the next packet is built and its write awaited, or the
\* loop is over and the first sleep is awaited
ForLoop(s, req, count, fl) ==
    IF s + 1 < count
    THEN LET p == BuildPacket(s + 1, count, req) IN
         /\ seq' = s + 1
         /\ IF p.err
            THEN /\ exc' = "OverflowError"
                 /\ pc' = "aexit"
                 /\ inflight' = fl
                 /\ UNCHANGED issued
            ELSE /\ issued' = Append(issued, p.data)
                 /\ inflight' = fl \cup {p.data}
                 /\ pc' = "write"
                 /\ UNCHANGED exc
    ELSE /\ pc' = "sleep"
         /\ inflight' = fl
         /\ UNCHANGED <<seq, issued, exc>>

\* variant of StartNotifyOk: the packets are sent without the subscription
\* having been made
StartNotifyOkUnsubscribed ==
    /\ pc = "start_notify"
    /\ LET r == as_bytes(ssid, password) IN
       IF r.err
       THEN /\ exc' = "OverflowError"
            /\ pc' = "aexit"
            /\ UNCHANGED <<request, packet_count, seq, issued, inflight>>
       ELSE /\ request' = r.data
            /\ packet_count' = PacketCount(Len(r.data))
            /\ ForLoop(seq, r.data, PacketCount(Len(r.data)), inflight)
    /\ UNCHANGED <<attempt, ssid, password, connected, subscribed,
                   bind_ap_done, written, polls, outcome, stopCalls, ghost>>

\* start_notify returns; the request is encoded and the loop entered
StartNotifyOk ==
    /\ pc = "start_notify"
    /\ subscribed' = TRUE
    /\ LET r == as_bytes(ssid, password) IN
       IF r.err
       THEN /\ exc' = "OverflowError"
            /\ pc' = "aexit"
            /\ UNCHANGED <<request, packet_count, seq, issued, inflight>>
       ELSE /\ request' = r.data
            /\ packet_count' = PacketCount(Len(r.data))
            /\ ForLoop(seq, r.data, PacketCount(Len(r.data)), inflight)
    /\ UNCHANGED <<attempt, ssid, password, connected, bind_ap_done, written,
                   polls, outcome, stopCalls, ghost>>

StartNotifyFail ==
    /\ pc = "start_notify"
    /\ exc' = "BleakError"
    /\ pc' = "aexit"
    /\ UNCHANGED <<attempt, ssid, password, connected, subscribed,
                   bind_ap_done, locals, outcome, stopCalls, ghost>>

\* write_gatt_char(..., response=True) of a data packet returns
WriteOk ==
    /\ pc = "write"
    /\ \E p \in inflight :
         /\ written' = Append(written, p)
         /\ ForLoop(seq, request, packet_count, inflight \ {p})
    /\ UNCHANGED <<attempt, ssid, password, connected, subscribed,
                   bind_ap_done, request, packet_count, polls, outcome,
                   stopCalls, ghost>>

\* variant of WriteFail: the error of a data write is swallowed and the loop
\* goes on
WriteFailContinue ==
    /\ pc = "write"
    /\ \E p \in inflight : ForLoop(seq, request, packet_count, inflight \ {p})
    /\ UNCHANGED <<attempt, ssid, password, connected, subscribed,
                   bind_ap_done, request, packet_count, written, polls,
                   outcome, stopCalls, ghost>>

\* write_gatt_char of a data packet raises
WriteFail ==
    /\ pc = "write"
    /\ \E p \in inflight : inflight' = inflight \ {p}
    /\ exc' = "BleakError"
    /\ pc' = "aexit"
    /\ UNCHANGED <<attempt, ssid, password, connected, subscribed,
                   bind_ap_done, request, packet_count, seq, issued, written,
                   polls, outcome, stopCalls, ghost>>

\* variant of Poll: the flag is read only once the 60 iterations are over
PollNoBreak ==
    /\ pc = "sleep"
    /\ polls' = polls + 1
    /\ IF polls + 1 < POLL_COUNT
       THEN UNCHANGED <<pc, exc, issued, inflight>>
       ELSE IF bind_ap_done
            THEN /\ issued' = Append(issued, AckPacket(seq).data)
                 /\ inflight' = inflight \cup {AckPacket(seq).data}
                 /\ pc' = "ack_write"
                 /\ UNCHANGED exc
            ELSE /\ exc' = "Timeout"
                 /\ pc' = "aexit"
                 /\ UNCHANGED <<issued, inflight>>
    /\ UNCHANGED <<attempt, ssid, password, connected, subscribed,
                   bind_ap_done, request, packet_count, seq, written, outcome,
                   stopCalls, ghost>>

\* variant of Poll: the wait goes on until the flag is set, with no limit
\* on the number of iterations
PollNoTimeout ==
    /\ pc = "sleep"
    /\ polls' = IF polls + 1 < POLL_COUNT THEN polls + 1 ELSE polls
    /\ IF bind_ap_done
       THEN /\ issued' = Append(issued, AckPacket(seq).data)
            /\ inflight' = inflight \cup {AckPacket(seq).data}
            /\ pc' = "ack_write"
       ELSE UNCHANGED <<pc, issued, inflight>>
    /\ UNCHANGED <<attempt, ssid, password, connected, subscribed,
                   bind_ap_done, request, packet_count, seq, written, exc,
                   outcome, stopCalls, ghost>>

\* one iteration of the wait loop: the sleep returns and the flag is read.
\* Seeing the flag set breaks the loop, the check after the loop passes and
\* the ack write is awaited; the last iteration without the flag raises.
Poll ==
    /\ pc = "sleep"
    /\ polls' = polls + 1
    /\ IF bind_ap_done
       THEN LET a == AckPacket(seq) IN
            IF a.err
            THEN /\ exc' = "OverflowError"
                 /\ pc' = "aexit"
                 /\ UNCHANGED <<issued, inflight>>
            ELSE /\ issued' = Append(issued, a.data)
                 /\ inflight' = inflight \cup {a.data}
                 /\ pc' = "ack_write"
                 /\ UNCHANGED exc
       ELSE IF polls + 1 < POLL_COUNT
            THEN UNCHANGED <<pc, exc, issued, inflight>>
            ELSE /\ exc' = "Timeout"
                 /\ pc' = "aexit"
                 /\ UNCHANGED <<issued, inflight>>
    /\ UNCHANGED <<attempt, ssid, password, connected, subscribed,
                   bind_ap_done, request, packet_count, seq, written, outcome,
                   stopCalls, ghost>>

\* the ack write returns and stop_notify is awaited
AckOk ==
    /\ pc = "ack_write"
    /\ \E p \in inflight :
         /\ written' = Append(written, p)
         /\ inflight' = inflight \ {p}
    /\ stopCalls' = stopCalls + 1
    /\ pc' = "stop_notify"
    /\ UNCHANGED <<attempt, ssid, password, connected, subscribed,
                   bind_ap_done, request, packet_count, seq, issued, polls,
                   exc, outcome, ghost>>

\* variant of AckFail: the error of the ack write is swallowed like that of
\* stop_notify
AckFailSuppressed ==
    /\ pc = "ack_write"
    /\ \E p \in inflight : inflight' = inflight \ {p}
    /\ stopCalls' = stopCalls + 1
    /\ pc' = "stop_notify"
    /\ UNCHANGED <<attempt, ssid, password, connected, subscribed,
                   bind_ap_done, request, packet_count, seq, issued, written,
                   polls, exc, outcome, ghost>>

\* the ack write raises
AckFail ==
    /\ pc = "ack_write"
    /\ \E p \in inflight : inflight' = inflight \ {p}
    /\ exc' = "BleakError"
    /\ pc' = "aexit"
    /\ UNCHANGED <<attempt, ssid, password, connected, subscribed,
                   bind_ap_done, request, packet_count, seq, issued, written,
                   polls, outcome, stopCalls, ghost>>

\* stop_notify returns; success is logged and the with block is left
StopNotifyOk ==
    /\ pc = "stop_notify"
    /\ subscribed' = FALSE
    /\ pc' = "aexit"
    /\ UNCHANGED <<attempt, ssid, password, connected, bind_ap_done, locals,
                   exc, outcome, stopCalls, ghost>>

\* variant of StopNotifyFail: the BleakError of stop_notify propagates
StopNotifyFailRaised ==
    /\ pc = "stop_notify"
    /\ pc' = "aexit"
    /\ exc' = "BleakError"
    /\ stopFailed' = TRUE
    /\ UNCHANGED <<attempt, ssid, password, connected, subscribed,
                   bind_ap_done, locals, outcome, stopCalls, rx, sigAttempt,
                   sigPoll, sigPc, sigEver, unexpected>>

\* stop_notify raises BleakError, which suppress(BleakError) swallows
StopNotifyFail ==
    /\ pc = "stop_notify"
    /\ pc' = "aexit"
    /\ stopFailed' = TRUE
    /\ UNCHANGED <<attempt, ssid, password, connected, subscribed,
                   bind_ap_done, locals, exc, outcome, stopCalls, rx,
                   sigAttempt, sigPoll, sigPc, sigEver, unexpected>>

\* variant of AExit: the client is disconnected on the success path only
AExitOnSuccessOnly ==
    /\ pc = "aexit"
    /\ connected' = IF exc = "none" THEN FALSE ELSE connected
    /\ subscribed' = IF exc = "none" THEN FALSE ELSE subscribed
    /\ pc' = "returned"
    /\ outcome' = IF exc = "none" THEN "success" ELSE exc
    /\ UNCHANGED <<attempt, ssid, password, bind_ap_done, locals, exc,
                   stopCalls, ghost>>

\* BleakClient.__aexit__ disconnects; bind_ap returns or re-raises
AExit ==
    /\ pc = "aexit"
    /\ connected' = FALSE
    /\ subscribed' = FALSE
    /\ pc' = "returned"
    /\ outcome' = IF exc = "none" THEN "success" ELSE exc
    /\ UNCHANGED <<attempt, ssid, password, bind_ap_done, locals, exc,
                   stopCalls, ghost>>

\* variant of notification_handler: the payload is compared on its first
\* four bytes only
notification_handlerPrefix(data) ==
    /\ rx' = data
    /\ unexpected' = (unexpected \/ SubSeq(data, 1, 4) # SubSeq(DONE_SIGNAL, 1, 4))
    /\ bind_ap_done' = IF SubSeq(data, 1, 4) # SubSeq(DONE_SIGNAL, 1, 4)
                       THEN bind_ap_done
                       ELSE TRUE

\* variant of notification_handler: the flag is assigned the result of the
\* comparison
notification_handlerAssign(data) ==
    /\ rx' = data
    /\ unexpected' = (unexpected \/ data # DONE_SIGNAL)
    /\ bind_ap_done' = (data = DONE_SIGNAL)

\* _notification_handler(_, data)
notification_handler(data) ==
    /\ rx' = data
    /\ unexpected' = (unexpected \/ data # DONE_SIGNAL)
    /\ bind_ap_done' = IF data # DONE_SIGNAL THEN bind_ap_done ELSE TRUE

\* the event loop runs the handler for a notification of the device while
\* bind_ap is suspended
Notify ==
    /\ subscribed
    /\ pc \in AwaitPoints
    /\ \E data \in Notifications :
         /\ notification_handler(data)
         /\ sigAttempt' = (sigAttempt \/ data = DONE_SIGNAL)
         /\ sigPoll' = IF data = DONE_SIGNAL /\ ~sigAttempt THEN polls ELSE sigPoll
         /\ sigPc' = IF data = DONE_SIGNAL /\ ~sigAttempt THEN pc ELSE sigPc
         /\ sigEver' = (sigEver \/ data = DONE_SIGNAL)
    /\ UNCHANGED <<attempt, pc, ssid, password, connected, subscribed, locals,
                   exc, outcome, stopCalls, stopFailed>>

Next ==
    \/ \E s \in SSIDs, p \in Passwords : Call(s, p)
    \/ Discard
    \/ ConnectOk
    \/ ConnectFail
    \/ StartNotifyOk
    \/ StartNotifyFail
    \/ WriteOk
    \/ WriteFail
    \/ Poll
    \/ AckOk
    \/ AckFail
    \/ StopNotifyOk
    \/ StopNotifyFail
    \/ AExit
    \/ Notify

Spec == Init /\ [][Next]_vars

\* the steps of the bind_ap coroutine: the event loop resuming it when the
\* call or the sleep it awaits is over
Resume ==
    \/ ConnectOk
    \/ ConnectFail
    \/ StartNotifyOk
    \/ StartNotifyFail
    \/ WriteOk
    \/ WriteFail
    \/ Poll
    \/ AckOk
    \/ AckFail
    \/ StopNotifyOk
    \/ StopNotifyFail
    \/ AExit

\* Every awaited transport call returns or raises, and every sleep returns,
\* so a suspended bind_ap is resumed.  Nothing obliges the device to notify
\* or the caller to call again.
Fairness == WF_vars(Resume)

FairSpec == Spec /\ Fairness

\* ------------------------------------------------------- helpers of claims
\* a data packet carries the type marker 0x00 0x15
IsData(p) == Len(p) >= 4 /\ p[3] = 0 /\ p[4] = 21

\* the packets passed to write_gatt_char after the packet_count data packets
AcksIssued == {i \in 1..Len(issued) : ~IsData(issued[i])}

\* the bytes after the 4-byte header
Payload(p) == SubSeq(p, 5, Len(p))

RECURSIVE ConcatPayloads(_)
ConcatPayloads(ps) ==
    IF ps = <<>> THEN <<>> ELSE Payload(Head(ps)) \o ConcatPayloads(Tail(ps))

CeilDiv16(n) == (n + 15) \div 16

ByteLen(s) == Len(Encode(s))

\* UTF-8 decoding, the inverse of str.encode()
IsCont(b) == b >= 128 /\ b <= 191

CharLen(lead) ==
    IF lead < 128 THEN 1
    ELSE IF lead >= 192 /\ lead <= 223 THEN 2
    ELSE IF lead >= 224 /\ lead <= 239 THEN 3
    ELSE IF lead >= 240 /\ lead <= 247 THEN 4
    ELSE 0

CodePoint(c) ==
    IF Len(c) = 1 THEN c[1]
    ELSE IF Len(c) = 2 THEN (c[1] - 192) * 64 + (c[2] - 128)
    ELSE IF Len(c) = 3
         THEN (c[1] - 224) * 4096 + (c[2] - 128) * 64 + (c[3] - 128)
         ELSE (c[1] - 240) * 262144 + (c[2] - 128) * 4096 +
              (c[3] - 128) * 64 + (c[4] - 128)

Undecodable == [ok |-> FALSE, s |-> <<>>]

\* short inputs are decoded character by character, long ones are split at
\* a character boundary near the middle
RECURSIVE Decode(_)
Decode(b) ==
    IF Len(b) = 0 THEN [ok |-> TRUE, s |-> <<>>]
    ELSE IF Len(b) <= 4
    THEN LET n == CharLen(b[1]) IN
         IF n = 0 \/ n > Len(b) \/ \E i \in 2..n : ~IsCont(b[i])
         THEN Undecodable
         ELSE LET r == Decode(SubSeq(b, n + 1, Len(b))) IN
              IF r.ok
              THEN [ok |-> TRUE, s |-> <<CodePoint(SubSeq(b, 1, n))>> \o r.s]
              ELSE Undecodable
    ELSE LET mid == (Len(b) \div 2) + 1
             cands == {i \in mid..(mid + 3) : i <= Len(b) /\ ~IsCont(b[i])}
         IN  IF cands = {}
             THEN Undecodable
             ELSE LET m == CHOOSE i \in cands : \A j \in cands : i <= j
                      l == Decode(SubSeq(b, 1, m - 1))
                      r == Decode(SubSeq(b, m, Len(b)))
                  IN  IF l.ok /\ r.ok
                      THEN [ok |-> TRUE, s |-> l.s \o r.s]
                      ELSE Undecodable

\* the inverse parse of len || bytes || len || bytes, each length prefix
\* counting the bytes that follow it
Parse(blob) ==
    IF Len(blob) < 2 \/ Len(blob) < 2 + blob[1]
    THEN [ok |-> FALSE, ssid |-> <<>>, password |-> <<>>]
    ELSE LET n1 == blob[1]
             n2 == blob[2 + n1]
         IN  IF Len(blob) # 2 + n1 + n2
             THEN [ok |-> FALSE, ssid |-> <<>>, password |-> <<>>]
             ELSE LET a == Decode(SubSeq(blob, 2, 1 + n1))
                      b == Decode(SubSeq(blob, 3 + n1, 2 + n1 + n2))
                  IN  IF a.ok /\ b.ok
                      THEN [ok |-> TRUE, ssid |-> a.s, password |-> b.s]
                      ELSE [ok |-> FALSE, ssid |-> <<>>, password |-> <<>>]

\* ------------------------------------------------------------------ claims
\* C1: once the completion signal has been delivered to the handler during
\* or after packet transmission with the wait budget not yet used up, the
\* first poll after the delivery ends the wait loop, and the ack packet is
\* then passed to write_gatt_char exactly once (never more than once in any
\* call).
C1_SignalEndsWaitAndAcksOnce ==
    /\ Cardinality(AcksIssued) <= 1
    /\ (sigAttempt /\ polls > sigPoll) =>
         /\ pc # "sleep"
         /\ polls = sigPoll + 1
         /\ AcksIssued = {packet_count + 1}
         /\ Len(issued) = packet_count + 1

\* C1 witness: the signal arrived between the 5th and the 6th poll, the 6th
\* poll ended the loop and the call succeeded with one ack
C1_Witness ==
    /\ pc = "returned"
    /\ outcome = "success"
    /\ sigAttempt
    /\ sigPoll = 5
    /\ polls = 6
    /\ Cardinality(AcksIssued) = 1

\* C2: a call during which the handler never receives the completion signal
\* leaves the wait loop only by the timeout after exactly 60 polls, and
\* nothing is written after the last data packet.
C2_NoSignalTimesOut ==
    (~sigAttempt /\ polls >= 1 /\ pc # "sleep") =>
        /\ polls = POLL_COUNT
        /\ exc = "Timeout"
        /\ AcksIssued = {}

\* C3: when the with block is left with the subscription acquired and not
\* yet released, stop_notify has been called on the notification
\* characteristic.
C3_UnsubscribeOnEveryExit ==
    (pc = "aexit" /\ subscribed) => stopCalls >= 1

\* C4: a write to the command characteristic is only ever in flight while
\* the subscription made by start_notify is active.
C4_SubscribedBeforeWrite ==
    (inflight # {}) => (subscribed /\ connected)

\* C4 witness: the first data packet is in flight under the subscription
C4_Witness ==
    /\ inflight # {}
    /\ subscribed
    /\ seq = 0
    /\ written = <<>>

\* C5: the i-th packet passed to write_gatt_char is data packet seq = i - 1
\* (below packet_count), at most one write is in flight, and a write is
\* issued only when every earlier one has been confirmed.
C5_SequentialInOrder ==
    /\ Cardinality(inflight) <= 1
    /\ \A i \in 1..Len(issued) :
         IsData(issued[i]) => (issued[i][1] = i - 1 /\ i <= packet_count)
    /\ Len(written) <= Len(issued)
    /\ Len(issued) <= Len(written) + 1
    /\ \A i \in 1..Len(written) : written[i] = issued[i]
    /\ (inflight # {}) =>
         (inflight = {issued[Len(issued)]} /\ Len(written) = Len(issued) - 1)

\* C5 witness: the third packet is in flight after two confirmed ones
C5_Witness ==
    /\ pc = "write"
    /\ seq = 2
    /\ Len(written) = 2
    /\ inflight # {}

\* C6: a call whose transport calls all succeed writes ceil(L/16) data
\* packets whose payloads, concatenated in seq order, are the blob.
C6_AllPacketsReconstructBlob ==
    (pc = "returned" /\ request # <<>> /\ outcome # "BleakError") =>
        LET data == SelectSeq(written, IsData) IN
        /\ Len(data) = CeilDiv16(Len(request))
        /\ ConcatPayloads(data) = request

\* C7: the tag byte of packet seq is (((seq+1) << 4) + packet_count) mod 256
\* and the tag arithmetic never aborts the transfer.
C7_TagWraps ==
    /\ \A i \in 1..Len(issued) :
         IsData(issued[i]) => issued[i][2] = ((i * 16) + packet_count) % 256
    /\ ~(request # <<>> /\ exc = "OverflowError")

\* C8: every packet written after the data packets is the ack
\* packet_count 0x11 0x00 0x16, and seq is then packet_count - 1.
C8_AckFirstByteIsPacketCount ==
    \A i \in AcksIssued :
        /\ issued[i] = <<packet_count, 17, 0, 22>>
        /\ seq = packet_count - 1

\* C8 witness: the ack of a two-packet transfer is in flight
C8_Witness ==
    /\ pc = "ack_write"
    /\ packet_count = 2
    /\ inflight = {<<2, 17, 0, 22>>}

\* C9: a credential pair whose SSID or password encodes to more than 255
\* bytes never yields a blob.
C9_TooLongFails ==
    (ByteLen(ssid) > 255 \/ ByteLen(password) > 255) =>
        (request = <<>> /\ issued = <<>>)

\* C10: the blob of a pair with both encoded lengths in 0..255 parses back
\* to the pair.
C10_RoundTrip ==
    (request # <<>> /\ ByteLen(ssid) <= 255 /\ ByteLen(password) <= 255) =>
        Parse(request) = [ok |-> TRUE, ssid |-> ssid, password |-> password]

\* C11: the flag is never cleared and is set only by a step of the handler
\* whose payload is exactly 00 11 00 15 01 (a step that leaves bind_ap where
\* it is); whenever the flag is set, such a notification has been delivered.
C11_FlagSetOnlyBySignal ==
    /\ [](bind_ap_done => sigEver)
    /\ [][(bind_ap_done' # bind_ap_done) =>
            /\ ~bind_ap_done
            /\ rx' = DONE_SIGNAL
            /\ pc' = pc
            /\ UNCHANGED <<attempt, locals, exc, outcome, stopCalls>>]_vars

\* C11 witness: the handler has just set the flag during the wait
C11_Witness ==
    /\ pc = "sleep"
    /\ bind_ap_done
    /\ rx = DONE_SIGNAL
    /\ attempt = 1
    /\ polls = 2

\* C12: a handler step with a payload other than the completion signal
\* changes neither the flag nor anything of bind_ap (it neither ends the
\* call nor raises), and a call that logged unexpected data still issues
\* the ack at the first poll after a completion signal.
C12_UnexpectedDataIgnored ==
    /\ [][(rx' # rx /\ rx' # <<>> /\ rx' # DONE_SIGNAL) =>
            /\ unexpected'
            /\ bind_ap_done' = bind_ap_done
            /\ pc' = pc
            /\ UNCHANGED <<locals, exc, outcome, connected, subscribed>>]_vars
    /\ []((unexpected /\ sigAttempt /\ polls > sigPoll) =>
            (pc # "sleep" /\ Cardinality(AcksIssued) = 1))

\* C12 witness: unexpected data was logged before the completion signal
\* arrived, and the ack is in flight
C12_Witness ==
    /\ pc = "ack_write"
    /\ unexpected
    /\ sigAttempt
    /\ sigPoll = 3
    /\ attempt = 1
    /\ rx = DONE_SIGNAL

\* the data packets among a sequence of packets
DataOf(ps) == SelectSeq(ps, IsData)

\* a data write has raised: a data packet was passed to write_gatt_char and
\* is neither confirmed nor awaited
DataWriteFailed == inflight = {} /\ Len(DataOf(issued)) > Len(DataOf(written))

\* the ack write has raised
AckWriteFailed ==
    /\ inflight = {}
    /\ AcksIssued # {}
    /\ Len(written) = Len(DataOf(written))

\* C13: once the write of a data packet has raised, the call is leaving with
\* that BleakError: the failed packet is the last one ever passed to
\* write_gatt_char, no ack is issued and the call does not end in success.
C13_DataWriteErrorAborts ==
    DataWriteFailed =>
        /\ pc \in {"aexit", "returned"}
        /\ exc = "BleakError"
        /\ outcome \in {"none", "BleakError"}
        /\ Len(issued) = Len(written) + 1
        /\ seq = Len(written)
        /\ AcksIssued = {}
        /\ polls = 0

\* C13 witness: packet 0 of a two-packet transfer failed and the call ended
\* with the error, packet 1 never having been issued
C13_Witness ==
    /\ pc = "returned"
    /\ outcome = "BleakError"
    /\ packet_count = 2
    /\ Len(issued) = 1
    /\ written = <<>>

\* C14: once the ack write has raised, the call is leaving with that
\* BleakError although the flag was seen set; the ack was passed to
\* write_gatt_char once, and it never is more than once in a call.
C14_AckErrorFailsWithoutRetry ==
    /\ Cardinality(AcksIssued) <= 1
    /\ AckWriteFailed =>
         /\ pc \in {"aexit", "returned"}
         /\ exc = "BleakError"
         /\ outcome \in {"none", "BleakError"}
         /\ bind_ap_done
         /\ stopCalls = 0

\* C14 witness: the signal was delivered in this call, the ack write failed
\* and the call ended with the error
C14_Witness ==
    /\ pc = "returned"
    /\ outcome = "BleakError"
    /\ sigAttempt
    /\ Len(written) = packet_count
    /\ AcksIssued = {packet_count + 1}

\* C15: a stop_notify that raised leaves no exception behind and the call
\* ends in success, all data packets and the ack being written; a call that
\* leaves with an error ends with that very error.
C15_UnsubscribeErrorSuppressed ==
    /\ stopFailed =>
         /\ exc = "none"
         /\ Len(written) = packet_count + 1
         /\ (pc = "returned" => outcome = "success")
    /\ (pc = "returned" /\ exc # "none") => outcome = exc
    /\ (exc # "none") => ~stopFailed

\* C15 witness: stop_notify failed and the call returned successfully
C15_Witness ==
    /\ pc = "returned"
    /\ stopFailed
    /\ stopCalls = 1
    /\ outcome = "success"

\* C16: the connection is held from before the request is encoded until the
\* with block is left, and no call has ended with the client still
\* connected, whatever its outcome.
C16_ConnectionScoped ==
    /\ (pc = "returned") => ~connected
    /\ (pc \in {"start_notify", "write", "sleep", "ack_write", "stop_notify",
                "aexit"}) => connected
    /\ (request # <<>> /\ pc # "returned") => connected

\* C16 witness: a call that timed out has ended with the client disconnected
C16_Witness ==
    /\ pc = "returned"
    /\ outcome = "Timeout"
    /\ polls = POLL_COUNT
    /\ ~connected

\* C17: the wait is entered, and the ack issued, only with all packet_count
\* data packets confirmed; the ack is issued only after a poll saw the flag
\* set; a flag set during transmission leaves the remaining packets to be
\* written.
C17_AckAfterDataAndSignal ==
    /\ (pc \in {"sleep", "ack_write", "stop_notify"}) =>
         (packet_count >= 1 /\ Len(DataOf(written)) = packet_count)
    /\ (AcksIssued # {}) =>
         /\ Len(DataOf(written)) = packet_count
         /\ \A i \in 1..packet_count : written[i][1] = i - 1
         /\ polls >= 1
         /\ bind_ap_done
    /\ (pc = "write") => (AcksIssued = {} /\ polls = 0)

\* C17 witness: the completion signal arrived while packets were still
\* being written; both packets were written before the ack
C17_Witness ==
    /\ pc = "ack_write"
    /\ sigPc = "write"
    /\ attempt = 1
    /\ packet_count = 2
    /\ Len(written) = 2
    /\ polls = 1

\* C18: every call starts with the flag not set, and a call issues the ack
\* or ends in success only if the completion signal was delivered during
\* that call.
C18_AttemptsIndependent ==
    /\ (pc = "connect") => ~bind_ap_done
    /\ (AcksIssued # {}) => sigAttempt
    /\ (outcome = "success") => sigAttempt

\* C19: with every transport call and every sleep returning, a call that
\* was made ends, whatever is notified; the wait loop never does more than
\* 60 polls.
C19_EveryAttemptTerminates ==
    /\ [](polls <= POLL_COUNT)
    /\ (pc = "connect") ~> (pc = "returned")

\* C19 witness: a call ended after all 60 polls of the wait loop
C19_Witness ==
    /\ pc = "returned"
    /\ polls = POLL_COUNT
    /\ outcome = "Timeout"
    /\ unexpected

\* C20: every data packet passed to write_gatt_char carries, after its
\* 4-byte header, the blob's bytes from seq * 16 on and nothing else: 16
\* bytes in every packet but the last of the transfer, and
\* L - (packet_count - 1) * 16 bytes, between 1 and 16, in the last; so it
\* is at most 20 bytes long and its chunk is not empty.
C20_ChunkLengths ==
    \A i \in 1..Len(issued) :
        IsData(issued[i]) =>
            LET n == Len(Payload(issued[i])) IN
            /\ Len(issued[i]) <= 20
            /\ n >= 1
            /\ n <= 16
            /\ (i < packet_count) => (n = 16)
            /\ (i = packet_count) =>
                 (n = Len(request) - (packet_count - 1) * 16)
            /\ Payload(issued[i]) =
                 SubSeq(request, (i - 1) * 16 + 1, (i - 1) * 16 + n)

\* C20 witness: a 17-byte blob was sent as a 16-byte chunk and a 1-byte
\* chunk
C20_Witness ==
    /\ pc = "sleep"
    /\ Len(request) = 17
    /\ packet_count = 2
    /\ Len(written) = 2
    /\ Len(written[1]) = 20
    /\ Len(written[2]) = 5

====
